---- MODULE Spec2Model ----
(***************************************************************************)
(* Model of the GCS Send Monitor (gcs/src/gcs_sm.h) and of the write-set   *)
(* database registry (galera/src/wsdb.cpp).                                *)
(*                                                                         *)
(* Send monitor: every function of gcs_sm.h runs under sm->lock, so each   *)
(* is one atomic action, with two exceptions that the model keeps:         *)
(*   - gcs_sm_schedule() returns with the lock HELD on success (line 158), *)
(*     and the following gcs_sm_enter(sm, cond, true) goes on under it;    *)
(*   - gu_cond_wait() in _gcs_sm_enqueue_common() releases the lock, and   *)
(*     the woken thread has to take it again before it goes on (Resume).   *)
(* assert() is compiled out of a release build: the model goes on past a   *)
(* failed assertion, and the assertions are stated as properties.          *)
(* gu_cond_wait() is taken to return only after a gu_cond_signal().        *)
(*                                                                         *)
(* Registry: every operation of wsdb.cpp holds mutex_ from its first line  *)
(* to its return, so each is one atomic action.  TrxHandle objects are     *)
(* named 1, 2, .. in allocation order and a name is never used again; an   *)
(* object whose count is 0 has been destroyed.                             *)
(***************************************************************************)
EXTENDS Integers, Sequences, FiniteSets, TLC

\* ---------------------------------------------------------------- bounds
NThreads == 3
LogLen == 1
MaxCC == 2
MaxTrxId == 2
MaxObjects == 3
MaxHolds == 2
MaxConnId == 2
MaxByte == 2
MaxQueryLen == 1

\* ---------------------------------------------------- program constants
EINTR == 4
EAGAIN == 11
EBADFD == 77
ESRCH == 3
DefaultCC == 1
Undefined == -1

Threads == 1..NThreads
NoThread == 0
wait_q_len == 2 ^ LogLen
Slots == 0..(wait_q_len - 1)
Handles == 1..wait_q_len
TrxIds == 1..MaxTrxId
Objects == 1..MaxObjects
NoObject == 0
ConnIds == 1..MaxConnId
Bytes == 1..MaxByte
Queries == UNION {[1..n -> Bytes] : n \in 0..MaxQueryLen}
NoQuery == <<>>

VARIABLES
    wait_q,       \* sm->wait_q[]: slot -> [cond, wait]; cond is the waiter's
                  \* condition variable (named by its thread) or NoThread (NULL)
    wait_q_head,  \* sm->wait_q_head
    wait_q_tail,  \* sm->wait_q_tail
    users,        \* sm->users
    entered,      \* sm->entered
    sm_ret,       \* sm->ret: 0, or -EBADFD once closed
    pause,        \* sm->pause
    cc,           \* GCS_SM_CC
    lock,         \* holder of sm->lock, or NoThread
    pc,           \* per thread: "idle", "scheduled", "waiting", "entered"
    slot,         \* per thread: the local `tail' of _gcs_sm_enqueue_common
                  \* (0 while the thread is not in it)
    signalled,    \* per thread: its gu_cond_wait() has been signalled
    result,       \* what the last call of gcs_sm_schedule(), gcs_sm_enter() or
                  \* gcs_sm_interrupt() returned
    order,        \* history: threads holding a ticket and not yet woken, in
                  \* issuance order
    intr,         \* history: the thread's wait was cancelled by
                  \* gcs_sm_interrupt() and it has not resumed yet
    retired,      \* history: the positive tickets whose holder has been
                  \* admitted or interrupted
    trx_map_,     \* Wsdb::trx_map_: trx id -> TrxHandle object, or NoObject
    refcnt,       \* per TrxHandle object: its reference count (0: not
                  \* allocated, or destroyed)
    allocated,    \* number of TrxHandle objects allocated so far; objects are
                  \* named 1, 2, .. in allocation order
    holds,        \* history: per object, the references callers obtained from
                  \* get_trx() and have not given back to unref_trx()
    retval,       \* what the last get_trx() or get_conn_query() returned
                  \* (NoObject: 0)
    conn_map_,    \* Wsdb::conn_map_: conn id -> Conn, or NoConn
    write_set,    \* per TrxHandle object: the bytes of its write_set_
    ids,          \* per TrxHandle object: its conn_id_ and trx_id_
    fatal,        \* gu_throw_fatal has been raised
    stored        \* history: per conn id, the query last given to
                  \* set_conn_database() since the last discard_conn()

smvars == <<wait_q, wait_q_head, wait_q_tail, users, entered, sm_ret, pause,
            cc, lock, pc, slot, signalled, result, order, intr, retired>>

connvars == <<conn_map_, write_set, stored>>

wsvars == <<trx_map_, refcnt, allocated, holds, retval, ids, fatal, connvars>>

vars == <<smvars, wsvars>>

\* ------------------------------------------------------------- helpers

\* GCS_SM_INCREMENT(cursor)
Increment(cursor) == (cursor + 1) % wait_q_len

\* GCS_SM_HAS_TO_WAIT
HasToWait(e, p) == e >= cc \/ p

\* gu_cond_signal(cond): wakes the thread blocked on cond, if there is one
Signal(sig, c) == IF c # NoThread /\ pc[c] = "waiting" THEN sig \cup {c} ELSE sig

\* _gcs_sm_wake_up_next(): the loop, from `woken', on queue q with u users and
\* head cursor h; sig collects the threads signalled.
RECURSIVE WakeLoop(_, _, _, _, _)
WakeLoop(q, woken, u, h, sig) ==
    IF woken < cc /\ u > 0
    THEN IF q[h].wait
         THEN WakeLoop(q, woken + 1, u, h, Signal(sig, q[h].cond))
         ELSE WakeLoop(q, woken, u - 1, Increment(h), sig)
    ELSE [users |-> u, head |-> h, sig |-> sig]

\* _gcs_sm_wake_up_next() with sm->entered = e
WakeUpNext(q, e, u, h) == WakeLoop(q, e, u, h, {})

\* _gcs_sm_leave_common() with sm->entered = e
LeaveCommon(q, e, u, h) ==
    IF ~pause
    THEN WakeUpNext(q, e, u - 1, Increment(h))
    ELSE [users |-> u - 1, head |-> Increment(h), sig |-> {}]

Remove(seq, t) == SelectSeq(seq, LAMBDA x : x # t)

\* the signals sig delivered
Wake(sig) == [u \in Threads |-> signalled[u] \/ u \in sig]

\* ---------------------------------------------------------------- init

\* gcs_sm_create(): an empty, open, unpaused monitor; the head cursor is one
\* slot past the tail cursor, so that the first ticket's slot is the head
InitSM ==
    /\ wait_q = [s \in Slots |-> [cond |-> NoThread, wait |-> FALSE]]
    /\ wait_q_head = 1 % wait_q_len
    /\ wait_q_tail = 0
    /\ users = 0
    /\ entered = 0
    /\ sm_ret = 0
    /\ pause = FALSE
    /\ lock = NoThread
    /\ pc = [t \in Threads |-> "idle"]
    /\ slot = [t \in Threads |-> 0]
    /\ signalled = [t \in Threads |-> FALSE]
    /\ result = 0
    /\ order = <<>>
    /\ intr = [t \in Threads |-> FALSE]
    /\ retired = {}

\* ------------------------------------------------------------- actions

\* the test of gcs_sm_schedule(): there is room and the monitor is open
ScheduleFitsOffByOne(u, r) == u <= wait_q_len /\ r = 0
ScheduleFitsIgnoresClosed(u, r) == u < wait_q_len
ScheduleFits(u, r) == u < wait_q_len /\ r = 0

\* what gcs_sm_schedule() returns when it fails
ScheduleError(r) == IF r = 0 THEN -EAGAIN ELSE r

\* what gcs_sm_schedule() returns on success, the tail cursor being tl
ScheduleHandle(tl) == IF HasToWait(entered, pause) THEN tl + 1 ELSE 0

\* gcs_sm_schedule(): on success the caller keeps the lock
Schedule(t) ==
    /\ pc[t] = "idle"
    /\ lock = NoThread
    /\ IF ScheduleFits(users, sm_ret)
       THEN /\ users' = users + 1
            /\ wait_q_tail' = Increment(wait_q_tail)
            /\ result' = ScheduleHandle(Increment(wait_q_tail))
            /\ lock' = t
            /\ pc' = [pc EXCEPT ![t] = "scheduled"]
            /\ order' = Append(order, t)
       ELSE /\ result' = ScheduleError(sm_ret)
            /\ UNCHANGED <<users, wait_q_tail, lock, pc, order>>
    /\ UNCHANGED <<wait_q, wait_q_head, entered, sm_ret, pause, cc, slot,
                   signalled, intr, retired>>
    /\ UNCHANGED wsvars

\* gcs_sm_enter() from line 190 on, under the lock, after a successful
\* schedule that left the tail cursor at tl
EnterBody(t, tl) ==
    IF HasToWait(entered, pause)
    THEN \* _gcs_sm_enqueue_common() up to gu_cond_wait()
         /\ wait_q' = [wait_q EXCEPT ![tl] = [cond |-> t, wait |-> TRUE]]
         /\ slot' = [slot EXCEPT ![t] = tl]
         /\ pc' = [pc EXCEPT ![t] = "waiting"]
         /\ UNCHANGED <<entered, result>>
    ELSE /\ entered' = entered + 1
         /\ pc' = [pc EXCEPT ![t] = "entered"]
         /\ result' = 0
         /\ UNCHANGED <<wait_q, slot>>

\* gcs_sm_enter(sm, cond, true) after gcs_sm_schedule()
EnterScheduled(t) ==
    /\ pc[t] = "scheduled"
    /\ lock = t
    /\ EnterBody(t, wait_q_tail)
    /\ lock' = NoThread
    /\ order' = IF HasToWait(entered, pause) THEN order ELSE Remove(order, t)
    /\ UNCHANGED <<wait_q_head, wait_q_tail, users, sm_ret, pause, cc,
                   signalled, intr, retired>>
    /\ UNCHANGED wsvars

\* gcs_sm_enter(sm, cond, false): schedules by itself
EnterUnscheduled(t) ==
    /\ pc[t] = "idle"
    /\ lock = NoThread
    /\ IF ScheduleFits(users, sm_ret)
       THEN /\ users' = users + 1
            /\ wait_q_tail' = Increment(wait_q_tail)
            /\ EnterBody(t, Increment(wait_q_tail))
            /\ order' = IF HasToWait(entered, pause)
                        THEN Append(order, t) ELSE order
       ELSE /\ result' = ScheduleError(sm_ret)
            /\ UNCHANGED <<users, wait_q_tail, wait_q, slot, pc, entered, order>>
    /\ UNCHANGED <<wait_q_head, sm_ret, pause, cc, lock, signalled, intr,
                   retired>>
    /\ UNCHANGED wsvars

\* what the woken waiter's gcs_sm_enter() returns: w is the wait flag it found
WakeResult(w) == IF w THEN sm_ret ELSE -EINTR

\* the rest of _gcs_sm_enqueue_common() and of gcs_sm_enter(), once the
\* signalled waiter has the lock again
Resume(t) ==
    /\ pc[t] = "waiting"
    /\ signalled[t]
    /\ lock = NoThread
    /\ LET s  == slot[t]
           r  == WakeResult(wait_q[s].wait)
           q1 == [wait_q EXCEPT ![s] = [cond |-> NoThread, wait |-> FALSE]]
           lv == LeaveCommon(q1, entered, users, wait_q_head)
       IN  /\ wait_q' = q1
           /\ result' = r
           /\ order' = Remove(order, t)
           /\ slot' = [slot EXCEPT ![t] = 0]
           /\ intr' = [intr EXCEPT ![t] = FALSE]
           /\ retired' = IF r = 0 THEN retired \cup {s + 1} ELSE retired
           /\ IF r = 0
              THEN /\ entered' = entered + 1
                   /\ pc' = [pc EXCEPT ![t] = "entered"]
                   /\ signalled' = [signalled EXCEPT ![t] = FALSE]
                   /\ UNCHANGED <<users, wait_q_head>>
              ELSE /\ pc' = [pc EXCEPT ![t] = "idle"]
                   /\ UNCHANGED entered
                   /\ IF r = -EINTR
                      THEN /\ signalled' = [signalled EXCEPT ![t] = FALSE]
                           /\ UNCHANGED <<users, wait_q_head>>
                      ELSE /\ users' = lv.users
                           /\ wait_q_head' = lv.head
                           /\ signalled' = [Wake(lv.sig) EXCEPT ![t] = FALSE]
    /\ UNCHANGED <<wait_q_tail, sm_ret, pause, cc, lock>>
    /\ UNCHANGED wsvars

\* gcs_sm_leave()
Leave(t) ==
    /\ pc[t] = "entered"
    /\ lock = NoThread
    /\ LET lv == LeaveCommon(wait_q, entered - 1, users, wait_q_head)
       IN  /\ entered' = entered - 1
           /\ users' = lv.users
           /\ wait_q_head' = lv.head
           /\ signalled' = Wake(lv.sig)
    /\ pc' = [pc EXCEPT ![t] = "idle"]
    /\ UNCHANGED <<wait_q, wait_q_tail, sm_ret, pause, cc, lock, slot, result,
                   order, intr, retired>>
    /\ UNCHANGED wsvars

\* gcs_sm_pause()
Pause ==
    /\ lock = NoThread
    /\ pause' = (sm_ret = 0)
    /\ UNCHANGED <<wait_q, wait_q_head, wait_q_tail, users, entered, sm_ret, cc,
                   lock, pc, slot, signalled, result, order, intr, retired>>
    /\ UNCHANGED wsvars

\* gcs_sm_continue(): the caller continues a paused monitor
Continue ==
    /\ lock = NoThread
    /\ pause
    /\ LET w == WakeUpNext(wait_q, entered, users, wait_q_head)
       IN  /\ pause' = FALSE
           /\ users' = w.users
           /\ wait_q_head' = w.head
           /\ signalled' = Wake(w.sig)
    /\ UNCHANGED <<wait_q, wait_q_tail, entered, sm_ret, cc, lock, pc, slot,
                   result, order, intr, retired>>
    /\ UNCHANGED wsvars

\* the test of gcs_sm_interrupt(): does it wake the next waiter
InterruptWakes(s) == ~pause /\ wait_q_head = s

\* gcs_sm_interrupt()
Interrupt(h) ==
    /\ lock = NoThread
    /\ LET s  == h - 1
           c  == wait_q[s].cond
           q1 == [wait_q EXCEPT ![s] = [cond |-> NoThread, wait |-> FALSE]]
           w  == IF InterruptWakes(s)
                 THEN WakeUpNext(q1, entered, users, wait_q_head)
                 ELSE [users |-> users, head |-> wait_q_head, sig |-> {}]
       IN  IF wait_q[s].wait
           THEN /\ wait_q' = q1
                /\ result' = 0
                /\ users' = w.users
                /\ wait_q_head' = w.head
                /\ signalled' = Wake(Signal(w.sig, c))
                /\ intr' = [u \in Threads |-> intr[u] \/ u \in Signal({}, c)]
                /\ retired' = retired \cup {h}
           ELSE /\ result' = -ESRCH
                /\ UNCHANGED <<wait_q, users, wait_q_head, signalled, intr,
                               retired>>
    /\ UNCHANGED <<wait_q_tail, entered, sm_ret, pause, cc, lock, pc, slot,
                   order>>
    /\ UNCHANGED wsvars

\* gcs_sm_close(): marks the monitor closed and wakes every queued waiter
Close ==
    /\ lock = NoThread
    /\ sm_ret = 0
    /\ sm_ret' = -EBADFD
    /\ signalled' = [u \in Threads |->
          signalled[u] \/ \E s \in Slots :
              wait_q[s].wait /\ u \in Signal({}, wait_q[s].cond)]
    /\ UNCHANGED <<wait_q, wait_q_head, wait_q_tail, users, entered, pause, cc,
                   lock, pc, slot, result, order, intr, retired>>
    /\ UNCHANGED wsvars

NextSM ==
    \/ \E t \in Threads : Schedule(t)
    \/ \E t \in Threads : EnterScheduled(t)
    \/ \E t \in Threads : EnterUnscheduled(t)
    \/ \E t \in Threads : Resume(t)
    \/ \E t \in Threads : Leave(t)
    \/ Pause
    \/ Continue
    \/ \E h \in Handles : Interrupt(h)
    \/ Close

\* ------------------------------------------------------------ registry

\* conn_map_.end(): no Conn under the key
NoConn == [present |-> FALSE, trx_ |-> NoObject, default_db_ |-> NoQuery]

\* Conn(conn_id): no transaction attached, no default database stored
NewConn == [present |-> TRUE, trx_ |-> NoObject, default_db_ |-> NoQuery]

\* Wsdb::Wsdb(): both maps empty
InitWsdb ==
    /\ trx_map_ = [id \in TrxIds |-> NoObject]
    /\ refcnt = [o \in Objects |-> 0]
    /\ allocated = 0
    /\ holds = [o \in Objects |-> 0]
    /\ retval = NoObject
    /\ conn_map_ = [c \in ConnIds |-> NoConn]
    /\ write_set = [o \in Objects |-> NoQuery]
    /\ ids = [o \in Objects |-> [conn_id |-> Undefined, trx_id |-> Undefined]]
    /\ fatal = FALSE
    /\ stored = [c \in ConnIds |-> NoQuery]

\* new TrxHandle(..): the count of a new handle is the owner's one reference
NewRefcnt == 1

\* TrxHandle::ref()
Ref(n) == n + 1

\* TrxHandle::unref(): the object is destroyed when the count reaches 0
Unref(n) == n - 1

\* get_trx(): the count of the handle it returns, n being the count of the
\* handle found or created
GetTrxNoRef(n) == n
GetTrxRef(n) == Ref(n)

\* trx_map_.find(trx_id): the handle found, or NoObject (trx_map_.end())
TrxFind(id) == trx_map_[id]

\* create_trx(): trx_map_.insert() finds the key already in the map
TrxInsertFails(id) == trx_map_[id] # NoObject

\* Wsdb::get_trx(source_id, trx_id, create)
GetTrx(id, create) ==
    /\ LET i == TrxFind(id)
           o == IF i = NoObject THEN allocated + 1 ELSE i
       IN  IF i = NoObject /\ ~create
           THEN /\ retval' = NoObject
                /\ UNCHANGED <<trx_map_, refcnt, allocated, holds, ids, fatal>>
           ELSE /\ o \in Objects
                /\ holds[o] < MaxHolds
                /\ IF i = NoObject
                   THEN \* create_trx(): insert a new handle
                        /\ allocated' = allocated + 1
                        /\ ids' = [ids EXCEPT ![o] = [conn_id |-> Undefined,
                                                      trx_id |-> id]]
                        /\ IF TrxInsertFails(id)
                           THEN \* gu_throw_fatal
                                /\ fatal' = TRUE
                                /\ refcnt' = [refcnt EXCEPT ![o] = NewRefcnt]
                                /\ UNCHANGED <<trx_map_, holds, retval>>
                           ELSE /\ trx_map_' = [trx_map_ EXCEPT ![id] = o]
                                /\ refcnt' = [refcnt EXCEPT
                                                 ![o] = GetTrxRef(NewRefcnt)]
                                /\ retval' = o
                                /\ holds' = [holds EXCEPT ![o] = @ + 1]
                                /\ UNCHANGED fatal
                   ELSE /\ refcnt' = [refcnt EXCEPT ![o] = GetTrxRef(refcnt[o])]
                        /\ retval' = o
                        /\ holds' = [holds EXCEPT ![o] = @ + 1]
                        /\ UNCHANGED <<trx_map_, allocated, ids, fatal>>
    /\ UNCHANGED connvars
    /\ UNCHANGED smvars

\* Wsdb::unref_trx(trx), called by a holder of a reference to trx
UnrefTrx(o) ==
    /\ holds[o] > 0
    /\ refcnt' = [refcnt EXCEPT ![o] = Unref(refcnt[o])]
    /\ holds' = [holds EXCEPT ![o] = @ - 1]
    /\ UNCHANGED <<trx_map_, allocated, retval, ids, fatal>>
    /\ UNCHANGED connvars
    /\ UNCHANGED smvars

\* discard_trx(): the map entry after the discard
DiscardKeepsEntry(i) == i
DiscardErase(i) == NoObject

\* Wsdb::discard_trx(trx_id)
DiscardTrx(id) ==
    /\ LET i == TrxFind(id)
       IN  IF i # NoObject
           THEN /\ refcnt' = [refcnt EXCEPT ![i] = Unref(refcnt[i])]
                /\ trx_map_' = [trx_map_ EXCEPT ![id] = DiscardErase(i)]
                /\ UNCHANGED <<allocated, holds, retval, ids, fatal>>
                /\ UNCHANGED connvars
           ELSE UNCHANGED wsvars
    /\ UNCHANGED smvars

\* conn_map_.find(conn_id) finds a Conn under the key
ConnFindNever(c) == FALSE
ConnFind(c) == conn_map_[c].present

\* create_conn(): conn_map_.insert() finds the key already in the map
ConnInsertFails(c) == conn_map_[c].present

\* Conn::assign_trx(trx) and ~Conn(): the counts once the transaction
\* attached so far (old) has been released
ReleaseAttached(rc, old) ==
    IF old # NoObject THEN [rc EXCEPT ![old] = Unref(@)] ELSE rc

\* Conn::assing_default_db(query)
AssignDefaultDb(conn, q) == [conn EXCEPT !.default_db_ = q]

\* WriteSet::prepend_query(query): the bytes of the query go first
PrependQuery(ws, q) == q \o ws

\* get_conn_query(): a transaction has to be created on the Conn found
ConnNeedsTrxAlways(conn, create) == create
ConnNeedsTrx(conn, create) == conn.trx_ = NoObject /\ create

\* get_conn_query(): the Conn has a default database to seed the write set
SeedsNever(conn) == FALSE
SeedsDefaultDb(conn) == Len(conn.default_db_) > 0

\* Wsdb::get_conn_query(source_id, conn_id, create)
GetConnQuery(c, create) ==
    /\ LET conn == conn_map_[c]
           o    == allocated + 1
           trx  == [conn_id |-> c, trx_id |-> Undefined]
       IN  IF ~ConnFind(c)
           THEN IF create
                THEN IF ConnInsertFails(c)
                     THEN \* create_conn(): gu_throw_fatal
                          /\ fatal' = TRUE
                          /\ UNCHANGED <<conn_map_, allocated, refcnt, ids,
                                         write_set, retval>>
                     ELSE /\ o \in Objects
                          /\ allocated' = o
                          /\ ids' = [ids EXCEPT ![o] = trx]
                          /\ refcnt' = [ReleaseAttached(refcnt, NewConn.trx_)
                                           EXCEPT ![o] = NewRefcnt]
                          /\ conn_map_' = [conn_map_ EXCEPT
                                              ![c] = [NewConn EXCEPT !.trx_ = o]]
                          /\ retval' = o
                          /\ UNCHANGED <<write_set, fatal>>
                ELSE /\ retval' = NoObject
                     /\ UNCHANGED <<conn_map_, allocated, refcnt, ids,
                                    write_set, fatal>>
           ELSE IF ConnNeedsTrx(conn, create)
                THEN /\ o \in Objects
                     /\ allocated' = o
                     /\ ids' = [ids EXCEPT ![o] = trx]
                     /\ write_set' = [write_set EXCEPT ![o] =
                           IF SeedsDefaultDb(conn)
                           THEN PrependQuery(@, conn.default_db_) ELSE @]
                     /\ refcnt' = [ReleaseAttached(refcnt, conn.trx_)
                                      EXCEPT ![o] = NewRefcnt]
                     /\ conn_map_' = [conn_map_ EXCEPT ![c].trx_ = o]
                     /\ retval' = o
                     /\ UNCHANGED fatal
                ELSE /\ retval' = conn.trx_
                     /\ UNCHANGED <<conn_map_, allocated, refcnt, ids,
                                    write_set, fatal>>
    /\ UNCHANGED <<trx_map_, holds, stored>>
    /\ UNCHANGED smvars

\* discard_conn_query(): the Conn after assign_trx(0)
DiscardQueryErases(conn) == NoConn
DiscardQueryEntry(conn) == [conn EXCEPT !.trx_ = NoObject]

\* Wsdb::discard_conn_query(conn_id)
DiscardConnQuery(c) ==
    /\ IF ConnFind(c)
       THEN /\ conn_map_' = [conn_map_ EXCEPT ![c] = DiscardQueryEntry(@)]
            /\ refcnt' = ReleaseAttached(refcnt, conn_map_[c].trx_)
       ELSE UNCHANGED <<conn_map_, refcnt>>
    /\ UNCHANGED <<trx_map_, allocated, holds, retval, ids, fatal, write_set,
                   stored>>
    /\ UNCHANGED smvars

\* Wsdb::discard_conn(conn_id): the erased Conn releases its transaction
DiscardConn(c) ==
    /\ IF ConnFind(c)
       THEN /\ conn_map_' = [conn_map_ EXCEPT ![c] = NoConn]
            /\ refcnt' = ReleaseAttached(refcnt, conn_map_[c].trx_)
       ELSE UNCHANGED <<conn_map_, refcnt>>
    /\ stored' = [stored EXCEPT ![c] = NoQuery]
    /\ UNCHANGED <<trx_map_, allocated, holds, retval, ids, fatal, write_set>>
    /\ UNCHANGED smvars

\* Wsdb::set_conn_database(conn_id, query, query_len)
SetConnDatabase(c, q) ==
    /\ IF ConnFind(c)
       THEN /\ conn_map_' = [conn_map_ EXCEPT ![c] = AssignDefaultDb(@, q)]
            /\ UNCHANGED fatal
       ELSE IF ConnInsertFails(c)
            THEN \* create_conn(): gu_throw_fatal
                 /\ fatal' = TRUE
                 /\ UNCHANGED conn_map_
            ELSE /\ conn_map_' = [conn_map_ EXCEPT
                                     ![c] = AssignDefaultDb(NewConn, q)]
                 /\ UNCHANGED fatal
    /\ stored' = [stored EXCEPT ![c] = q]
    /\ UNCHANGED <<trx_map_, refcnt, allocated, holds, retval, ids,
                   write_set>>
    /\ UNCHANGED smvars

\* the operations on the trx-id map
NextWsdb ==
    \/ \E id \in TrxIds, create \in BOOLEAN : GetTrx(id, create)
    \/ \E o \in Objects : UnrefTrx(o)
    \/ \E id \in TrxIds : DiscardTrx(id)

\* the operations on the conn-id map
NextConn ==
    \/ \E c \in ConnIds, create \in BOOLEAN : GetConnQuery(c, create)
    \/ \E c \in ConnIds : DiscardConnQuery(c)
    \/ \E c \in ConnIds : DiscardConn(c)
    \/ \E c \in ConnIds, q \in Queries : SetConnDatabase(c, q)

\* every operation of the registry
NextRegistry ==
    \/ \E id \in TrxIds, create \in BOOLEAN : GetTrx(id, create)
    \/ \E o \in Objects : UnrefTrx(o)
    \/ \E id \in TrxIds : DiscardTrx(id)
    \/ \E c \in ConnIds, create \in BOOLEAN : GetConnQuery(c, create)
    \/ \E c \in ConnIds : DiscardConnQuery(c)
    \/ \E c \in ConnIds : DiscardConn(c)
    \/ \E c \in ConnIds, q \in Queries : SetConnDatabase(c, q)

\* --------------------------------------------------------- specifications

\* the build without GCS_SM_CONCURRENCY: GCS_SM_CC is 1
Init == InitSM /\ InitWsdb /\ cc = DefaultCC

\* the build with GCS_SM_CONCURRENCY: GCS_SM_CC is sm->cc
InitCC == InitSM /\ InitWsdb /\ cc \in 1..MaxCC

\* the send monitor, GCS_SM_CC = 1
SpecSM == Init /\ [][NextSM]_vars

\* the send monitor, GCS_SM_CC = sm->cc
SpecSMCC == InitCC /\ [][NextSM]_vars

\* the registry, trx-id map
SpecWsdb == Init /\ [][NextWsdb]_vars

\* the registry, conn-id map
SpecConn == Init /\ [][NextConn]_vars

\* the registry, both maps
SpecRegistry == Init /\ [][NextRegistry]_vars

\* ------------------------------------------------------- send monitor claims

\* position of thread t in `order' (0: not in it)
Pos(t) == IF \E i \in 1..Len(order) : order[i] = t
          THEN CHOOSE i \in 1..Len(order) : order[i] = t
          ELSE 0

\* u holds an earlier ticket than t (t, when not in `order', has just been
\* issued its ticket)
Earlier(u, t) == Pos(u) > 0 /\ (Pos(t) = 0 \/ Pos(u) < Pos(t))

\* t's gcs_sm_enter() returns 0 in this step
Admitted(t) == pc[t] # "entered" /\ pc'[t] = "entered"

\* C1: in every reachable state 0 <= entered <= C (the assertions
\* `entered < C' before entered++ and `entered >= 0' after entered-- hold).
C1_EnteredWithinCap == 0 <= entered /\ entered <= cc

\* C2: FIFO: a thread is never admitted while a thread that holds an earlier
\* ticket is still waiting, has not been interrupted and is not held behind
\* a pause.
C2_AdmittedInTicketOrder ==
    [][\A t \in Threads : Admitted(t) =>
          ~\E u \in Threads \ {t} :
              pc[u] = "waiting" /\ ~intr[u] /\ ~pause /\ Earlier(u, t)]_vars

\* C4: while the pause flag is set no ticket is admitted: entered is never
\* incremented in a step taken from a paused state.
C4_NoAdmissionWhilePaused ==
    [][pause => (entered' <= entered /\ \A t \in Threads : ~Admitted(t))]_vars

\* gcs_sm_schedule() runs in this step, by itself or inside gcs_sm_enter()
Schedules(t) == Schedule(t) \/ EnterUnscheduled(t)

\* C3: users <= L always; on an open monitor schedule() returns -EAGAIN
\* exactly when users = L, and then changes neither users, the tail cursor nor
\* a slot; otherwise it increments users and advances the tail cursor.
C3_QueueBound ==
    /\ [](users <= wait_q_len)
    /\ [][\A t \in Threads : (Schedules(t) /\ sm_ret = 0) =>
            /\ (pc'[t] = "idle" /\ result' = -EAGAIN) <=> (users = wait_q_len)
            /\ users = wait_q_len =>
                  UNCHANGED <<users, wait_q_tail, wait_q, pc>>
            /\ users # wait_q_len =>
                  /\ users' = users + 1
                  /\ wait_q_tail' = Increment(wait_q_tail)]_vars

C3_Witness == sm_ret = 0 /\ users = wait_q_len /\ result = -EAGAIN

\* t is blocked in gcs_sm_enter() on the slot that ticket h names
WaitsOn(t, h) == pc[t] = "waiting" /\ slot[t] = h - 1

\* C5: interrupt(h) on the ticket of a thread blocked in enter() returns 0
\* and cancels that thread and no other; the cancelled thread's enter()
\* returns -EINTR, never 0, and does not increment entered.
C5_InterruptWaiting ==
    [][/\ \A h \in Handles, t \in Threads :
             (Interrupt(h) /\ WaitsOn(t, h) /\ ~intr[t]) =>
                 /\ result' = 0
                 /\ intr'[t]
                 /\ \A u \in Threads \ {t} : intr'[u] = intr[u]
       /\ \A t \in Threads :
             (intr[t] /\ pc[t] = "waiting" /\ pc'[t] # "waiting") =>
                 /\ result' = -EINTR
                 /\ pc'[t] = "idle"
                 /\ entered' = entered]_vars

\* C6: interrupt(h) on a ticket whose holder has already been admitted or
\* interrupted returns -ESRCH, wakes nobody and changes nothing of the
\* monitor, however far the cursors have advanced since.
C6_InterruptRetired ==
    [][\A h \in Handles : (Interrupt(h) /\ h \in retired) =>
          /\ result' = -ESRCH
          /\ UNCHANGED <<users, entered, wait_q_head, wait_q_tail, wait_q,
                         signalled>>]_vars

\* C7: once closed the monitor stays closed; schedule() and
\* enter(.., false) return -EBADFD and change neither users, entered nor the
\* cursors; an admitted thread stays admitted, and counted in entered, until
\* its own leave().
C7_CloseSemantics ==
    [][sm_ret # 0 =>
          /\ sm_ret' = sm_ret
          /\ \A t \in Threads : Schedules(t) =>
                /\ result' = -EBADFD
                /\ pc'[t] = "idle"
                /\ UNCHANGED <<users, entered, wait_q_head, wait_q_tail>>
          /\ \A t \in Threads :
                (pc[t] = "entered" /\ pc'[t] # "entered") => Leave(t)
          /\ entered' < entered => \E t \in Threads : Leave(t)]_vars

C7_Witness ==
    /\ sm_ret = -EBADFD
    /\ result = -EBADFD
    /\ \E t \in Threads : pc[t] = "entered"
    /\ \E t \in Threads : pc[t] = "idle"

\* The scheduling the claim assumes: a signalled waiter gets the lock again, a
\* thread that scheduled goes on to enter, every holder leaves, every pause is
\* followed by a continue.
FairSM ==
    /\ \A t \in Threads : SF_vars(Resume(t))
    /\ \A t \in Threads : WF_vars(EnterScheduled(t))
    /\ \A t \in Threads : SF_vars(Leave(t))
    /\ SF_vars(Continue)

\* the monitor is never closed and no ticket is ever interrupted
NextOpenSM ==
    \/ \E t \in Threads : Schedule(t)
    \/ \E t \in Threads : EnterScheduled(t)
    \/ \E t \in Threads : EnterUnscheduled(t)
    \/ \E t \in Threads : Resume(t)
    \/ \E t \in Threads : Leave(t)
    \/ Pause
    \/ Continue

FairSpecSM == Init /\ [][NextOpenSM]_vars /\ FairSM

\* C8: on an open monitor a thread blocked in enter() is eventually admitted,
\* unless its ticket is interrupted or the monitor is closed.
C8_AdmissionProgress ==
    \A t \in Threads :
        (pc[t] = "waiting" /\ sm_ret = 0) ~>
            (pc[t] = "entered" \/ intr[t] \/ sm_ret # 0)

\* C12: for every cap C >= 1, in every reachable state 0 <= users and
\* entered <= users (the assertions `users > 0' before users-- and
\* `users >= 0' after the wake-up loop hold; the loop never takes an admitted
\* holder's unit off users).
C12_UsersCoversEntered == 0 <= users /\ entered <= users

\* the slot k places after slot s in ring order
RingAfter(s, k) == (s + k) % wait_q_len

\* the first waiter after slot s in ring order (NoThread: there is none)
NextWaiter(s) ==
    IF \E k \in 1..(wait_q_len - 1) : wait_q[RingAfter(s, k)].wait
    THEN LET k == CHOOSE k \in 1..(wait_q_len - 1) :
                     /\ wait_q[RingAfter(s, k)].wait
                     /\ \A j \in 1..(k - 1) : ~wait_q[RingAfter(s, j)].wait
         IN  wait_q[RingAfter(s, k)].cond
    ELSE NoThread

\* interrupt(h) cancels waiter t, whose slot is at the head cursor, while the
\* monitor is not paused and a concurrency slot is free
InterruptAtHead(h, t) ==
    /\ Interrupt(h)
    /\ WaitsOn(t, h)
    /\ wait_q[h - 1].wait
    /\ wait_q_head = h - 1
    /\ ~pause
    /\ entered < cc

\* C13: when interrupt() cancels the waiter at the queue head on an unpaused
\* monitor with a free concurrency slot, the head cursor skips the cancelled
\* slot and the next waiter in ring order (if any) is signalled; a signalled
\* waiter that was not cancelled is admitted when it resumes on an open
\* monitor, and the cancelled thread returns -EINTR without being admitted.
C13_InterruptAtHead ==
    [][/\ \A h \in Handles, t \in Threads : InterruptAtHead(h, t) =>
             /\ wait_q_head' # h - 1
             /\ NextWaiter(h - 1) # NoThread => signalled'[NextWaiter(h - 1)]
       /\ \A t \in Threads :
             (Resume(t) /\ ~intr[t] /\ sm_ret = 0) => pc'[t] = "entered"
       /\ \A t \in Threads :
             (Resume(t) /\ intr[t]) =>
                 /\ result' = -EINTR
                 /\ pc'[t] = "idle"
                 /\ entered' = entered]_vars

\* waiter t, blocked in enter() when the monitor was closed, resumes
ClosedOut(t) == Resume(t) /\ sm_ret # 0 /\ ~intr[t]

\* C14: close wakes every thread blocked in enter(); each one's enter()
\* returns -EBADFD without incrementing entered, and releases its slot exactly
\* once: users goes down by exactly one and the head cursor advances by one
\* slot, users never going negative, in whatever order the waiters resume.
C14_ClosedOutWaiters ==
    [][/\ Close => \A t \in Threads : pc[t] = "waiting" => signalled'[t]
       /\ \A t \in Threads : ClosedOut(t) =>
             /\ result' = -EBADFD
             /\ pc'[t] = "idle"
             /\ entered' = entered
             /\ users' = users - 1
             /\ wait_q_head' = Increment(wait_q_head)
             /\ users' >= 0]_vars

\* t holds a ticket that has not reached a final state: it has neither left,
\* nor been interrupted, nor been closed out
LiveTicket(t) ==
    \/ pc[t] \in {"scheduled", "entered"}
    \/ pc[t] = "waiting" /\ ~intr[t]

\* C15: at every state users equals the number of issued tickets whose
\* holders have neither left, nor been interrupted, nor been closed out; when
\* every issued ticket has reached a final state users = 0 and the head
\* cursor is one slot past the tail cursor.
C15_SlotAccounting ==
    /\ users = Cardinality({t \in Threads : LiveTicket(t)})
    /\ (\A t \in Threads : pc[t] = "idle") =>
           (users = 0 /\ wait_q_head = Increment(wait_q_tail))

\* ---------------------------------------------------------- registry claims

\* the object is not destroyed by this step
LiveNext(o) == refcnt'[o] > 0

\* the trx id is registered
Registered(id) == trx_map_[id] # NoObject

\* C9: a registered handle counts the baseline reference and one reference
\* per acquisition not yet released; get_trx() returns the registered object
\* and adds one to its count (a creating call leaves 2), unref_trx() takes
\* one off, and discard_trx() removes the entry, after which
\* get_trx(id, false) returns none.
C9_ReferenceCounting ==
    /\ [](\A id \in TrxIds : Registered(id) =>
             refcnt[trx_map_[id]] = 1 + holds[trx_map_[id]])
    /\ [][/\ \A id \in TrxIds, create \in BOOLEAN :
                (GetTrx(id, create) /\ (Registered(id) \/ create)) =>
                   /\ retval' = trx_map_'[id]
                   /\ Registered(id) =>
                         /\ retval' = trx_map_[id]
                         /\ refcnt'[retval'] = refcnt[retval'] + 1
                   /\ ~Registered(id) => refcnt'[retval'] = 2
          /\ \A id \in TrxIds :
                (GetTrx(id, FALSE) /\ ~Registered(id)) => retval' = NoObject
          /\ \A o \in Objects : UnrefTrx(o) => refcnt'[o] = refcnt[o] - 1
          /\ \A id \in TrxIds : DiscardTrx(id) => ~Registered(id)']_vars

\* a registered handle just returned for the second time, both references
\* outstanding
C9_Witness ==
    \E id \in TrxIds :
        /\ Registered(id)
        /\ retval = trx_map_[id]
        /\ holds[retval] = 2
        /\ refcnt[retval] = 3

\* C10: a discard_trx() with references outstanding does not destroy the
\* handle; every holder's later unref_trx() meets its precondition
\* (count > 1), and the handle is destroyed exactly when the last one
\* releases.
C10_ReleaseAfterDiscard ==
    [][/\ \A id \in TrxIds :
             (DiscardTrx(id) /\ Registered(id) /\ holds[trx_map_[id]] >= 1) =>
                 LiveNext(trx_map_[id])
       /\ \A o \in Objects :
             (UnrefTrx(o) /\ \A id \in TrxIds : trx_map_[id] # o) =>
                 /\ refcnt[o] > 1
                 /\ LiveNext(o) <=> holds'[o] > 0]_vars

\* the object is in the trx-id map
InTrxMap(o) == \E id \in TrxIds : trx_map_[id] = o

\* C16: every handle in the trx-id map has count >= 1, equal to 1 plus the
\* get_trx() acquisitions of it not yet released; no handle that is
\* registered or held has count 0, and a handle's count reaches 0 only in a
\* state where discard_trx() has removed its entry and no holder is left.
C16_HandleLifetime ==
    /\ [](\A o \in Objects :
             /\ InTrxMap(o) => (refcnt[o] >= 1 /\ refcnt[o] = 1 + holds[o])
             /\ (InTrxMap(o) \/ holds[o] > 0) => refcnt[o] >= 1)
    /\ [][\A o \in Objects : (refcnt[o] > 0 /\ refcnt'[o] = 0) =>
             /\ ~InTrxMap(o)'
             /\ holds'[o] = 0
             /\ ~InTrxMap(o) \/ holds[o] = 0]_vars

\* a handle created by get_trx() has been discarded and released by its last
\* holder, while another one is registered and held
C16_Witness ==
    \E o, r \in Objects :
        /\ o <= allocated
        /\ ids[o].trx_id # Undefined
        /\ refcnt[o] = 0
        /\ ~InTrxMap(o)
        /\ InTrxMap(r)
        /\ holds[r] > 0

\* the byte string ws begins with the bytes of q
BeginsWith(ws, q) == Len(ws) >= Len(q) /\ SubSeq(ws, 1, Len(q)) = q

\* C11: get_conn_query(c, true) on a connection with no attached
\* transaction returns a newly created transaction, attached to c, whose
\* write set begins with the bytes of the query last stored by
\* set_conn_database(c, ..); it is empty when none has been stored since the
\* last discard_conn(c).
C11_DefaultDbSeeding ==
    [][\A c \in ConnIds :
          (GetConnQuery(c, TRUE) /\ conn_map_[c].trx_ = NoObject) =>
              /\ allocated' = allocated + 1
              /\ retval' = allocated'
              /\ refcnt[retval'] = 0
              /\ refcnt'[retval'] = 1
              /\ conn_map_'[c].trx_ = retval'
              /\ BeginsWith(write_set'[retval'], stored[c])
              /\ stored[c] = NoQuery => write_set'[retval'] = NoQuery]_vars

\* the second transaction of a connection has just been created, seeded with
\* the query stored for it, another query being stored for another connection
C11_Witness ==
    \E c, e \in ConnIds :
        /\ retval >= 2
        /\ conn_map_[c].trx_ = retval
        /\ ids[retval].conn_id = c
        /\ stored[c] # NoQuery
        /\ write_set[retval] = stored[c]
        /\ stored[e] # NoQuery
        /\ stored[e] # stored[c]

\* C17: get_conn_query() on a connection with an attached transaction
\* returns that handle for either value of create and changes neither its
\* count, its write set, the stored default database nor a map, nor creates
\* a handle; with create = false on an absent connection or on one with no
\* transaction attached it returns none and changes neither map.
C17_GetConnQueryIdempotent ==
    [][\A c \in ConnIds, create \in BOOLEAN : GetConnQuery(c, create) =>
          /\ conn_map_[c].trx_ # NoObject =>
                /\ retval' = conn_map_[c].trx_
                /\ UNCHANGED <<refcnt, write_set, conn_map_, trx_map_, stored,
                               allocated>>
          /\ (~create /\ conn_map_[c].trx_ = NoObject) =>
                /\ retval' = NoObject
                /\ UNCHANGED <<conn_map_, trx_map_, refcnt, allocated>>]_vars

\* the transaction attached to a connection has been returned again, after
\* a later handle was created, with a handle in the trx-id map
C17_Witness ==
    \E c \in ConnIds, id \in TrxIds :
        /\ retval # NoObject
        /\ conn_map_[c].trx_ = retval
        /\ ids[retval].conn_id = c
        /\ allocated > retval
        /\ refcnt[retval] = 1
        /\ trx_map_[id] # NoObject

\* the counts once the transaction attached to Conn c has been released
Released(c) ==
    IF conn_map_[c].trx_ # NoObject
    THEN [refcnt EXCEPT ![conn_map_[c].trx_] = @ - 1]
    ELSE refcnt

\* C18: discard_conn_query(c) on an existing connection releases its
\* transaction and keeps the entry and its default database; on an unknown
\* connection it changes nothing; discard_conn(c) removes the entry and
\* releases the transaction, and get_conn_query(c, false) on a removed
\* connection returns none; neither changes the trx-id map or another
\* connection.
C18_DiscardConn ==
    [][\A c \in ConnIds :
          /\ DiscardConnQuery(c) =>
                /\ conn_map_[c].present =>
                      /\ conn_map_'[c] = [conn_map_[c] EXCEPT !.trx_ = NoObject]
                      /\ refcnt' = Released(c)
                /\ ~conn_map_[c].present => UNCHANGED <<conn_map_, refcnt>>
                /\ \A e \in ConnIds \ {c} : conn_map_'[e] = conn_map_[e]
                /\ UNCHANGED trx_map_
          /\ DiscardConn(c) =>
                /\ ~conn_map_'[c].present
                /\ refcnt' = Released(c)
                /\ \A e \in ConnIds \ {c} : conn_map_'[e] = conn_map_[e]
                /\ UNCHANGED trx_map_
          /\ (GetConnQuery(c, FALSE) /\ ~conn_map_[c].present) =>
                retval' = NoObject]_vars

\* a connection has lost its transaction and kept its default database,
\* another connection keeps its transaction, a handle is registered
C18_Witness ==
    \E c, e \in ConnIds, o \in Objects, id \in TrxIds :
        /\ conn_map_[c].present
        /\ conn_map_[c].trx_ = NoObject
        /\ conn_map_[c].default_db_ # NoQuery
        /\ ids[o].conn_id = c
        /\ o <= allocated
        /\ refcnt[o] = 0
        /\ e # c
        /\ conn_map_[e].trx_ # NoObject
        /\ trx_map_[id] # NoObject

\* C19: the insertion collision of create_trx() and create_conn() is never
\* raised: a handle or a Conn is created only under a key absent from its
\* map, and no handle is in the maps twice.
C19_NoInsertCollision ==
    /\ [](~fatal)
    /\ [](\A id, jd \in TrxIds :
             (id # jd /\ trx_map_[id] # NoObject) => trx_map_[id] # trx_map_[jd])
    /\ [](\A c, e \in ConnIds :
             (c # e /\ conn_map_[c].trx_ # NoObject) =>
                 conn_map_[c].trx_ # conn_map_[e].trx_)
    /\ [][/\ \A id \in TrxIds :
                (trx_map_'[id] # trx_map_[id] /\ trx_map_'[id] # NoObject) =>
                    /\ trx_map_[id] = NoObject
                    /\ refcnt[trx_map_'[id]] = 0
          /\ \A c \in ConnIds :
                (conn_map_'[c].present /\ conn_map_'[c].trx_ # conn_map_[c].trx_
                    /\ conn_map_'[c].trx_ # NoObject) =>
                    /\ conn_map_[c].trx_ = NoObject
                    /\ refcnt[conn_map_'[c].trx_] = 0]_vars

\* both maps hold an entry under a key that was discarded and created again
C19_Witness ==
    \E id \in TrxIds, c \in ConnIds, o \in Objects :
        /\ trx_map_[id] # NoObject
        /\ o < trx_map_[id]
        /\ ids[o].trx_id = id
        /\ conn_map_[c].present
        /\ conn_map_[c].trx_ # NoObject

\* get_conn_query() has just returned handle o to its caller, and no call
\* has returned since
JustReturned(o) == retval = o /\ ids[o].conn_id # Undefined /\ refcnt[o] > 0

\* C20: a handle get_conn_query() returned to a caller is not destroyed
\* while the caller is using it: no operation of another thread that
\* follows the return takes its count to 0.
C20_ConnTrxAliveWhileUsed ==
    [][\A o \in Objects : JustReturned(o) => refcnt'[o] > 0]_vars

UsersLow == users >= -3
WaitHasCond == \A s \in Slots : wait_q[s].wait => wait_q[s].cond # NoThread
====
